---- MODULE Spec2Model ----
(***************************************************************************)
(* MachampModel (src/mtp/machamp/models/machamp_model.py): the per-batch   *)
(* task selection, decoder dispatch and loss aggregation of forward, the   *)
(* humanizer make_output_human_readable and the metric reducer             *)
(* get_metrics.                                                            *)
(*                                                                         *)
(* Tensors are abstracted: a label tensor by the presence of its key, a    *)
(* probability tensor by the presence of its key, a loss by an integer.    *)
(* Python strings that are only concatenated and compared are TLA+ strings *)
(* (task + '_rels' is task \o "_rels"); metric names, which are split,     *)
(* lower-cased and prefix/suffix-tested, are sequences of characters.      *)
(***************************************************************************)
EXTENDS Integers, Sequences, FiniteSets, TLC

VARIABLES
    tasks,                \* self.tasks
    task_types,           \* self.task_types
    pc,                   \* position: idle, dispatch, returned, raised, humanized, hr_raised, metrics
    col_idxs,             \* metadata[0]['col_idxs']
    gold_labels,          \* the keys of kwargs
    tasks_to_handle,      \* forward's local list
    task_types_to_handle, \* forward's local list
    pooled,               \* whether embedded_text_sent was computed (line 75)
    idx,                  \* position of the dispatch loop (line 88), 1-based
    calls,                \* the decoder invocations made so far, in order
    logits,               \* forward's local dict: task -> pred_output['loss']
    class_probabilities,  \* the keys of forward's local dict
    loss,                 \* forward's local accumulator
    loss_reads,           \* the tasks whose pred_output["loss"] was read at line 119
    output_dict,          \* the bundle forward returns and the humanizer mutates
    n_humanized,          \* completed make_output_human_readable applications
    reports,              \* per task, what its decoder's get_metrics returns
    decoder_returned,     \* per task, what get_metrics got from the decoder (line 160)
    returned_metrics      \* what get_metrics returned

vars == <<tasks, task_types, pc, col_idxs, gold_labels, tasks_to_handle,
          task_types_to_handle, pooled, idx, calls, logits, class_probabilities,
          loss, loss_reads, output_dict, n_humanized, reports, decoder_returned,
          returned_metrics>>

fwdVars == <<col_idxs, gold_labels, tasks_to_handle, task_types_to_handle, pooled,
             idx, calls, logits, class_probabilities, loss, loss_reads,
             output_dict, n_humanized>>

----------------------------------------------------------------------------
(* Bounds and input universes *)

\* the most keys in a batch's col_idxs
MaxCols == 2
\* the most keys in a batch's gold-label bundle
MaxGold == 2
\* decoder losses are drawn from 0..MaxLoss
MaxLoss == 1
\* how often the humanizer is applied to one bundle
MaxHumanize == 2

\* the pool of task names; a registry is a prefix of it
TaskNames == <<"a", "b">>

\* the task-type tags; "seq" stands for every tag forward's else branch takes
TaskTypes == {"classification", "dependency", "unsupervised", "seq2seq", "seq"}

ColKeyUniverse ==
    UNION {{t, t \o "_rels", t \o "_target_words"} : t \in {TaskNames[i] : i \in DOMAIN TaskNames}}

GoldKeyUniverse ==
    UNION {{t, t \o "_rels", t \o "_head_indices", t \o "_target", t \o "_target_words"} :
              t \in {TaskNames[i] : i \in DOMAIN TaskNames}}

LossVals == 0..MaxLoss

\* the subsets of S of at most k elements
RECURSIVE SubsetsUpTo(_, _)
SubsetsUpTo(S, k) ==
    IF k = 0 THEN {{}}
    ELSE LET smaller == SubsetsUpTo(S, k - 1)
         IN  smaller \cup {T \cup {x} : T \in smaller, x \in S}

NoValue == [none |-> TRUE]

----------------------------------------------------------------------------
(* forward: the batch task selector, lines 61-68 *)

IsActive_NoBareName(task, task_type, cols) ==
    \/ task_type = "seq2seq" /\ (task \o "_target_words") \in cols
    \/ task_type = "dependency" /\ (task \o "_rels") \in cols
    \/ task_type \notin {"seq2seq", "dependency"} /\ task \in cols

IsActive(task, task_type, cols) ==
    LET s2s_and_in == task_type = "seq2seq" /\ (task \o "_target_words") \in cols
        dep_and_in == task_type = "dependency" /\ (task \o "_rels") \in cols
    IN  s2s_and_in \/ dep_and_in \/ task \in cols

\* the indices of the registry that the loop of lines 63-68 appends, in order
RECURSIVE SelectFrom(_, _, _, _)
SelectFrom(i, ts, tys, cols) ==
    IF i > Len(ts) \/ i > Len(tys) THEN <<>>
    ELSE (IF IsActive(ts[i], tys[i], cols) THEN <<i>> ELSE <<>>)
         \o SelectFrom(i + 1, ts, tys, cols)

\* task_types_to_handle.count('classification'), line 70
RECURSIVE CountOf(_, _)
CountOf(seq, x) ==
    IF seq = <<>> THEN 0
    ELSE (IF Head(seq) = x THEN 1 ELSE 0) + CountOf(Tail(seq), x)

----------------------------------------------------------------------------
(* forward: the task dispatcher, lines 88-111 *)

\* dict[key] = value on a Python dict modelled as a function
Put(d, k, v) == [x \in (DOMAIN d) \cup {k} |-> IF x = k THEN v ELSE d[x]]

EmptyDict == [x \in {} |-> 0]

\* the gold keys forward looks up for the decoder call of a task of this type
GoldKeysConsulted(task, task_type) ==
    CASE task_type = "classification" -> {task}
      [] task_type = "dependency"     -> {task \o "_rels", task \o "_head_indices"}
      [] task_type = "unsupervised"   -> {task}
      [] task_type = "seq2seq"        -> {task \o "_target"}
      [] OTHER                        -> {task}

\* the shared representation handed to the decoder, and whether the mask is
RepresentationFor(task_type) ==
    IF task_type = "classification" THEN "embedded_text_sent" ELSE "embedded_text"

MaskPassed(task_type) == task_type \notin {"classification", "unsupervised"}

\* one decoder call: gold holds the consulted keys that were passed non-None
Invocation(task, task_type, gold) ==
    [task  |-> task,
     type  |-> task_type,
     repr  |-> RepresentationFor(task_type),
     mask  |-> MaskPassed(task_type),
     gold  |-> GoldKeysConsulted(task, task_type) \cap gold]

\* the class_probabilities keys forward sets from the decoder's output
ProbKeys(task, task_type) ==
    CASE task_type = "dependency"   -> {task \o "_rels", task \o "_head_indices"}
      [] task_type = "unsupervised" -> {}
      [] OTHER                      -> {task}

\* what a decoder may return: `loss` is optional, whatever labels it was given
DecoderOutputs ==
    {[has_loss |-> h, loss |-> l] : h \in BOOLEAN, l \in LossVals} \
        {[has_loss |-> FALSE, loss |-> l] : l \in LossVals \ {0}}

\* zip iteration of line 88
TaskAt_Reversed(seq, i) == seq[Len(seq) + 1 - i]

TaskAt(seq, i) == seq[i]

----------------------------------------------------------------------------
(* forward: the loss aggregator, lines 86, 113-122 *)

InitialLoss_One == 0 + 1

InitialLoss == 0

LossIncluded_NoBareName(task, task_type, gold) ==
    \/ task_type = "dependency" /\ (task \o "_rels") \in gold
    \/ task_type = "seq2seq" /\ (task \o "_target_words") \in gold
    \/ task_type \notin {"seq2seq", "dependency"} /\ task \in gold

LossIncluded(task, task_type, gold) ==
    LET dep_and_in == task_type = "dependency" /\ (task \o "_rels") \in gold
        s2s_and_in == task_type = "seq2seq" /\ (task \o "_target_words") \in gold
    IN  dep_and_in \/ s2s_and_in \/ task \in gold

EmitLoss_Always(gold) == TRUE

\* `if gold_labels:`, line 121
EmitLoss(gold) == gold # {}

\* a Python value that is a number nested in `depth` one-element lists
Scalar(v) == [depth |-> 0, val |-> v]

----------------------------------------------------------------------------
(* forward as a process *)

\* lines 59-86: the selection, the shared representations, the empty outputs
ForwardBegin ==
    /\ pc = "idle"
    /\ \E cols \in SubsetsUpTo(ColKeyUniverse, MaxCols),
          gold \in SubsetsUpTo(GoldKeyUniverse, MaxGold) :
         LET sel == SelectFrom(1, tasks, task_types, cols)
             handle == [k \in 1..Len(sel) |-> tasks[sel[k]]]
             types  == [k \in 1..Len(sel) |-> task_types[sel[k]]]
         IN  /\ col_idxs' = cols
             /\ gold_labels' = gold
             /\ tasks_to_handle' = handle
             /\ task_types_to_handle' = types
             /\ pooled' = (CountOf(types, "classification") > 0)
    /\ idx' = 1
    /\ calls' = <<>>
    /\ logits' = EmptyDict
    /\ class_probabilities' = {}
    /\ loss' = InitialLoss
    /\ loss_reads' = {}
    /\ pc' = "dispatch"
    /\ UNCHANGED <<tasks, task_types, output_dict, n_humanized, reports,
                   decoder_returned, returned_metrics>>

\* one iteration of the loop of lines 88-119; reading a `loss` the decoder did
\* not return (line 119) is a KeyError that ends forward
Dispatch ==
    /\ pc = "dispatch"
    /\ idx <= Len(tasks_to_handle)
    /\ LET task == TaskAt(tasks_to_handle, idx)
           task_type == TaskAt(task_types_to_handle, idx)
           read == LossIncluded(task, task_type, gold_labels)
       IN  \E pred_output \in DecoderOutputs :
             /\ calls' = Append(calls, Invocation(task, task_type, gold_labels))
             /\ class_probabilities' = class_probabilities \cup ProbKeys(task, task_type)
             /\ logits' = IF pred_output.has_loss
                          THEN Put(logits, task, pred_output.loss) ELSE logits
             /\ loss_reads' = IF read THEN loss_reads \cup {task} ELSE loss_reads
             /\ IF read /\ ~pred_output.has_loss
                THEN pc' = "raised" /\ loss' = loss /\ idx' = idx
                ELSE /\ pc' = pc
                     /\ loss' = IF read THEN loss + pred_output.loss ELSE loss
                     /\ idx' = idx + 1
    /\ UNCHANGED <<tasks, task_types, col_idxs, gold_labels, tasks_to_handle,
                   task_types_to_handle, pooled, output_dict, n_humanized,
                   reports, decoder_returned, returned_metrics>>

\* lines 84-85 and 121-133: the bundle forward returns
Bundle(lg, cp, l, gold, cols, ts, tys) ==
    LET base == [k \in {"logits", "class_probabilities", "tokens", "full_data",
                        "col_idxs", "tasks", "task_types", "mask"} |->
                   CASE k = "logits" -> lg
                     [] k = "class_probabilities" -> cp
                     [] k = "col_idxs" -> <<cols>>
                     [] k = "tasks" -> <<ts>>
                     [] k = "task_types" -> <<tys>>
                     [] OTHER -> k]
    IN  IF EmitLoss(gold) THEN Put(base, "loss", Scalar(l)) ELSE base

ForwardEnd ==
    /\ pc = "dispatch"
    /\ idx > Len(tasks_to_handle)
    /\ output_dict' = Bundle(logits, class_probabilities, loss, gold_labels,
                             col_idxs, tasks, task_types)
    /\ pc' = "returned"
    /\ UNCHANGED <<tasks, task_types, col_idxs, gold_labels, tasks_to_handle,
                   task_types_to_handle, pooled, idx, calls, logits,
                   class_probabilities, loss, loss_reads, n_humanized,
                   reports, decoder_returned, returned_metrics>>

----------------------------------------------------------------------------
(* make_output_human_readable, lines 136-153 *)

\* self.tasks.index(task)
RECURSIVE IndexOf(_, _, _)
IndexOf(seq, x, i) ==
    IF i > Len(seq) THEN 0 ELSE IF seq[i] = x THEN i ELSE IndexOf(seq, x, i + 1)

\* the loop of lines 140-149 from registry position i on; d is the bundle,
\* raised is set by the KeyError of line 146
RECURSIVE HumanizeLoop(_, _, _, _)
HumanizeLoop(i, d, ts, tys) ==
    IF i > Len(ts) THEN [dict |-> d, raised |-> FALSE]
    ELSE LET task == ts[i]
             is_dep == tys[IndexOf(ts, task, 1)] = "dependency"
             cp == d["class_probabilities"]
         IN  IF task \in cp
             THEN HumanizeLoop(i + 1, Put(d, task, "readable"), ts, tys)
             ELSE IF is_dep /\ (task \o "_rels") \in cp
             THEN IF (task \o "_head_indices") \in cp
                  THEN HumanizeLoop(i + 1,
                           Put(Put(d, task \o "_rels", "readable"),
                               task \o "_head_indices", "readable"), ts, tys)
                  ELSE [dict |-> d, raised |-> TRUE]
             ELSE HumanizeLoop(i + 1, d, ts, tys)

PyEqZero_AnyDepth(v) == v.val = 0

\* `output_dict['loss'] == 0`, line 151: a list never equals a number
PyEqZero(v) == v.depth = 0 /\ v.val = 0

\* `[output_dict['loss']]`, line 152
Wrap(v) == [depth |-> v.depth + 1, val |-> v.val]

\* one application to the bundle; reading a missing `loss` (line 151) is a
\* KeyError that leaves the entries already written
Humanize ==
    /\ pc \in {"returned", "humanized"}
    /\ n_humanized < MaxHumanize
    /\ LET looped == HumanizeLoop(1, output_dict, tasks, task_types)
           d == looped.dict
       IN  IF looped.raised \/ "loss" \notin DOMAIN d
           THEN /\ output_dict' = d
                /\ pc' = "hr_raised"
                /\ n_humanized' = n_humanized
           ELSE /\ output_dict' = IF PyEqZero(d["loss"])
                                  THEN Put(d, "loss", Wrap(d["loss"])) ELSE d
                /\ pc' = "humanized"
                /\ n_humanized' = n_humanized + 1
    /\ UNCHANGED <<tasks, task_types, col_idxs, gold_labels, tasks_to_handle,
                   task_types_to_handle, pooled, idx, calls, logits,
                   class_probabilities, loss, loss_reads, reports, decoder_returned, returned_metrics>>

----------------------------------------------------------------------------
(* the model instance after __init__, lines 20-49 *)

Registries ==
    {[names |-> SubSeq(TaskNames, 1, n), types |-> tys] :
        n \in 1..Len(TaskNames), tys \in UNION {[1..m -> TaskTypes] : m \in 1..Len(TaskNames)}}

Init ==
    /\ \E r \in {x \in Registries : Len(x.names) = Len(x.types)} :
         tasks = r.names /\ task_types = r.types
    /\ pc = "idle"
    /\ col_idxs = {}
    /\ gold_labels = {}
    /\ tasks_to_handle = <<>>
    /\ task_types_to_handle = <<>>
    /\ pooled = FALSE
    /\ idx = 1
    /\ calls = <<>>
    /\ logits = EmptyDict
    /\ class_probabilities = {}
    /\ loss = 0
    /\ loss_reads = {}
    /\ output_dict = EmptyDict
    /\ n_humanized = 0
    /\ reports = EmptyDict
    /\ decoder_returned = EmptyDict
    /\ returned_metrics = NoValue

----------------------------------------------------------------------------
(* get_metrics, lines 157-189 *)

\* str.split("/") on a sequence of characters
RECURSIVE SplitFrom(_, _, _)
SplitFrom(name, i, current) ==
    IF i > Len(name) THEN <<current>>
    ELSE IF name[i] = "/" THEN <<current>> \o SplitFrom(name, i + 1, <<>>)
    ELSE SplitFrom(name, i + 1, Append(current, name[i]))

Split(name) == SplitFrom(name, 1, <<>>)

\* the characters of a component as one string
RECURSIVE Join(_)
Join(chars) == IF chars = <<>> THEN "" ELSE Head(chars) \o Join(Tail(chars))

LowerChar(c) ==
    CASE c = "A" -> "a" [] c = "B" -> "b" [] c = "C" -> "c" [] c = "D" -> "d"
      [] c = "E" -> "e" [] c = "F" -> "f" [] c = "G" -> "g" [] c = "H" -> "h"
      [] c = "I" -> "i" [] c = "J" -> "j" [] c = "K" -> "k" [] c = "L" -> "l"
      [] c = "M" -> "m" [] c = "N" -> "n" [] c = "O" -> "o" [] c = "P" -> "p"
      [] c = "Q" -> "q" [] c = "R" -> "r" [] c = "S" -> "s" [] c = "T" -> "t"
      [] c = "U" -> "u" [] c = "V" -> "v" [] c = "W" -> "w" [] c = "X" -> "x"
      [] c = "Y" -> "y" [] c = "Z" -> "z" [] OTHER -> c

\* str.lower()
Lower(chars) == [i \in 1..Len(chars) |-> LowerChar(chars[i])]

\* name.split("/")[-1]
LastComponent(name) == LET parts == Split(name) IN parts[Len(parts)]

StartsWith(name, prefix) ==
    Len(name) >= Len(prefix) /\ SubSeq(name, 1, Len(prefix)) = prefix

EndsWith(name, suffix) ==
    Len(name) >= Len(suffix)
    /\ SubSeq(name, Len(name) - Len(suffix) + 1, Len(name)) = suffix

\* a Python number, and a Python mapping of sub-fields to numbers
Num(n) == [scalar |-> TRUE, num |-> n]

Mapping(f) == [scalar |-> FALSE, fields |-> f]

\* task_metric[field]: NoValue stands for the KeyError / TypeError
Field(task_metric, field) ==
    IF ~task_metric.scalar /\ field \in DOMAIN task_metric.fields
    THEN Num(task_metric.fields[field]) ELSE NoValue

Extract_KeepUnknown(name, task_metric) ==
    LET suffix == LastComponent(name)
    IN  CASE Join(suffix) \in {"acc", "ppl"} -> task_metric
          [] Join(Lower(suffix)) \in {"las"} -> Field(task_metric, "LAS")
          [] Join(suffix) \in {"micro-f1", "macro-f1"} -> Field(task_metric, "fscore")
          [] Join(suffix) = "span_f1" -> Field(task_metric, "f1-measure-overall")
          [] Join(suffix) = "multi_span_f1" -> Field(task_metric, "f1-measure-overall")
          [] Join(suffix) = "bleu" -> Field(task_metric, "BLEU")
          [] OTHER -> task_metric

\* the if/elif chain of lines 161-174: the value stored under name, NoValue
\* when the extraction raises, [dropped |-> TRUE] when only an error is logged
Extract(name, task_metric) ==
    LET suffix == LastComponent(name)
    IN  CASE Join(suffix) \in {"acc", "ppl"} -> task_metric
          [] Join(Lower(suffix)) \in {"las"} -> Field(task_metric, "LAS")
          [] Join(suffix) \in {"micro-f1", "macro-f1"} -> Field(task_metric, "fscore")
          [] Join(suffix) = "span_f1" -> Field(task_metric, "f1-measure-overall")
          [] Join(suffix) = "multi_span_f1" -> Field(task_metric, "f1-measure-overall")
          [] Join(suffix) = "bleu" -> Field(task_metric, "BLEU")
          [] OTHER -> [dropped |-> TRUE]

\* the inner loop of lines 160-174 over one decoder's mapping
RECURSIVE ReduceOne(_, _, _)
ReduceOne(metrics, report, names) ==
    IF names = {} THEN [metrics |-> metrics, raised |-> FALSE]
    ELSE LET name == CHOOSE n \in names : TRUE
             got == Extract(name, report[name])
         IN  IF got = NoValue THEN [metrics |-> metrics, raised |-> TRUE]
             ELSE IF got = [dropped |-> TRUE]
             THEN ReduceOne(metrics, report, names \ {name})
             ELSE ReduceOne(Put(metrics, name, got), report, names \ {name})

\* the outer loop of lines 159-174, in registry order from position i on
RECURSIVE ReduceAll(_, _, _, _)
ReduceAll(i, metrics, ts, reps) ==
    IF i > Len(ts) THEN [metrics |-> metrics, raised |-> FALSE]
    ELSE LET one == ReduceOne(metrics, reps[ts[i]], DOMAIN reps[ts[i]])
         IN  IF one.raised THEN one ELSE ReduceAll(i + 1, one.metrics, ts, reps)

\* lines 176-178
MetricsToTrack(ts, tys) ==
    {IF tys[i] # "dependency" THEN ts[i] ELSE "las" :
        i \in {j \in 1..Len(ts) : j <= Len(tys)}}

\* set(name.split("/"))
Components(name) == LET parts == Split(name) IN {Join(parts[i]) : i \in DOMAIN parts}

Summed_WithPpl(name, metrics_to_track) ==
    /\ ~StartsWith(name, <<"_">>)
    /\ Components(name) \cap metrics_to_track # {}

\* the condition of lines 182-183 under which a metric enters the sum
Summed(name, metrics_to_track) ==
    /\ ~StartsWith(name, <<"_">>)
    /\ Components(name) \cap metrics_to_track # {}
    /\ ~EndsWith(name, <<"p", "p", "l">>)

\* lines 180-184; adding a mapping to a number raises
RECURSIVE SumOver(_, _)
SumOver(metrics, names) ==
    IF names = {} THEN Num(0)
    ELSE LET name == CHOOSE n \in names : TRUE
             rest == SumOver(metrics, names \ {name})
         IN  IF rest = NoValue \/ ~metrics[name].scalar THEN NoValue
             ELSE Num(rest.num + metrics[name].num)

RunSum == <<".", "r", "u", "n", "/", ".", "s", "u", "m">>

\* get_metrics as a whole: NoValue when it raises, else the returned mapping
GetMetricsResult(ts, tys, reps) ==
    LET reduced == ReduceAll(1, EmptyDict, ts, reps)
        metrics == reduced.metrics
        track == MetricsToTrack(ts, tys)
        metric_sum == SumOver(metrics, {n \in DOMAIN metrics : Summed(n, track)})
    IN  IF reduced.raised \/ metric_sum = NoValue THEN NoValue
        ELSE Put(metrics, RunSum, metric_sum)

----------------------------------------------------------------------------
(* the decoders' metric state, a collaborator of get_metrics *)

\* the most metrics the decoders report together
MaxMetrics == 2
\* metric values are drawn from 0..MaxMetric, in tenths
MaxMetric == 1

MetricNameUniverse ==
    {<<"a", "/", "a", "c", "c">>,
     <<"a", "/", "p", "p", "l">>,
     <<"b", "/", "l", "a", "s">>,
     <<"b", "/", "L", "A", "S">>,
     <<"a", "/", "m", "i", "c", "r", "o", "-", "f", "1">>,
     <<"b", "/", "s", "p", "a", "n", "_", "f", "1">>,
     <<"b", "/", "b", "l", "e", "u">>,
     <<"_", "/", "a", "/", "a", "c", "c">>,
     <<"a", "/", "x", "y", "z">>,
     <<"x", "/", "a", "c", "c">>}

\* the shape in which a decoder reports a metric of this name
DecoderValue(name, v) ==
    LET suffix == Join(Lower(LastComponent(name)))
    IN  CASE suffix = "las" -> Mapping([f \in {"LAS", "UAS"} |-> IF f = "LAS" THEN v ELSE v + 1])
          [] suffix \in {"micro-f1", "macro-f1"} ->
                Mapping([f \in {"precision", "recall", "fscore"} |-> IF f = "fscore" THEN v ELSE v + 1])
          [] suffix \in {"span_f1", "multi_span_f1"} ->
                Mapping([f \in {"precision-overall", "recall-overall", "f1-measure-overall"} |->
                            IF f = "f1-measure-overall" THEN v ELSE v + 1])
          [] suffix = "bleu" -> Mapping([f \in {"BLEU"} |-> v])
          [] OTHER -> Num(v)

\* get_metrics(reset=True) clears a decoder's running counters
ResetValue(task_metric) ==
    IF task_metric.scalar THEN Num(0)
    ELSE Mapping([f \in DOMAIN task_metric.fields |-> 0])

ReportsFrom(ts, entries, val) ==
    [t \in {ts[i] : i \in DOMAIN ts} |->
        [n \in {e[2] : e \in {x \in entries : x[1] = t}} |-> DecoderValue(n, val[<<t, n>>])]]

\* get_metrics tells dependency from every other type only
MetricsRegistries ==
    {x \in Registries :
        /\ Len(x.names) = Len(x.types)
        /\ \A i \in DOMAIN x.types : x.types[i] \in {"dependency", "classification", "seq2seq"}}

InitMetrics ==
    /\ \E r \in MetricsRegistries :
         /\ tasks = r.names
         /\ task_types = r.types
         /\ \E entries \in SubsetsUpTo({r.names[i] : i \in DOMAIN r.names} \X MetricNameUniverse,
                                      MaxMetrics) :
              \E val \in [entries -> 0..MaxMetric] :
                 reports = ReportsFrom(r.names, entries, val)
    /\ pc = "idle"
    /\ col_idxs = {}
    /\ gold_labels = {}
    /\ tasks_to_handle = <<>>
    /\ task_types_to_handle = <<>>
    /\ pooled = FALSE
    /\ idx = 1
    /\ calls = <<>>
    /\ logits = EmptyDict
    /\ class_probabilities = {}
    /\ loss = 0
    /\ loss_reads = {}
    /\ output_dict = EmptyDict
    /\ n_humanized = 0
    /\ decoder_returned = EmptyDict
    /\ returned_metrics = NoValue

GetMetrics ==
    /\ pc = "idle"
    /\ \E reset \in BOOLEAN :
         /\ decoder_returned' = reports
         /\ returned_metrics' = GetMetricsResult(tasks, task_types, reports)
         /\ reports' = IF reset
                       THEN [t \in DOMAIN reports |->
                               [n \in DOMAIN reports[t] |-> ResetValue(reports[t][n])]]
                       ELSE reports
    /\ pc' = "metrics"
    /\ UNCHANGED <<tasks, task_types>>
    /\ UNCHANGED fwdVars

NextMetrics == GetMetrics

SpecMetrics == InitMetrics /\ [][NextMetrics]_vars

Next == ForwardBegin \/ Dispatch \/ ForwardEnd \/ Humanize

Spec == Init /\ [][Next]_vars

----------------------------------------------------------------------------
(* Properties of forward *)

Range(seq) == {seq[i] : i \in DOMAIN seq}

\* the key the specification names for a task of a type
PerTypeKey(task, task_type) ==
    CASE task_type = "seq2seq"    -> task \o "_target_words"
      [] task_type = "dependency" -> task \o "_rels"
      [] OTHER                    -> task

Selected == pc # "idle"

\* C1 as stated: after the selection, a task is in the active list iff its
\* per-type key (<task>_target_words for seq2seq, <task>_rels for dependency,
\* <task> otherwise) is in col_idxs.
C1_PerTypeKeyOnly ==
    Selected =>
        \A i \in DOMAIN tasks :
            tasks[i] \in Range(tasks_to_handle)
                <=> PerTypeKey(tasks[i], task_types[i]) \in col_idxs

\* C1 amended: a task is in the active list iff its per-type key or its bare
\* name is in col_idxs, and it is listed with its own type.
C1_PerTypeKeyOrBareName ==
    Selected =>
        /\ \A i \in DOMAIN tasks :
               tasks[i] \in Range(tasks_to_handle)
                   <=> \/ PerTypeKey(tasks[i], task_types[i]) \in col_idxs
                       \/ tasks[i] \in col_idxs
        /\ \A k \in DOMAIN tasks_to_handle :
               \E i \in DOMAIN tasks :
                   tasks[i] = tasks_to_handle[k] /\ task_types[i] = task_types_to_handle[k]

\* a dependency task active by its bare name alone
C1_Witness ==
    /\ Selected
    /\ \E i \in DOMAIN tasks :
          /\ task_types[i] = "dependency"
          /\ tasks[i] \in col_idxs
          /\ (tasks[i] \o "_rels") \notin col_idxs
          /\ tasks[i] \in Range(tasks_to_handle)

\* the loss the decoder of a task returned in this call, 0 when it returned none
ReturnedLoss(task) == IF task \in DOMAIN logits THEN logits[task] ELSE 0

\* the sum of the decoder-returned losses of the active-list positions in S
RECURSIVE SumOfReturned(_)
SumOfReturned(S) ==
    IF S = {} THEN 0
    ELSE LET k == CHOOSE x \in S : TRUE
         IN  ReturnedLoss(tasks_to_handle[k]) + SumOfReturned(S \ {k})

GoldKeyPresent(k) ==
    PerTypeKey(tasks_to_handle[k], task_types_to_handle[k]) \in gold_labels

GoldKeyOrBareNamePresent(k) ==
    GoldKeyPresent(k) \/ tasks_to_handle[k] \in gold_labels

\* C2 as stated: with a non-empty gold bundle the emitted loss is the sum of the
\* decoder-returned losses of exactly the active tasks whose per-type gold key
\* is in the bundle.
C2_SumOverPerTypeKey ==
    (pc = "returned" /\ gold_labels # {}) =>
        /\ "loss" \in DOMAIN output_dict
        /\ output_dict["loss"] = Scalar(SumOfReturned({k \in DOMAIN tasks_to_handle : GoldKeyPresent(k)}))

\* C2 amended: the emitted loss is the sum of the decoder-returned losses of
\* exactly the active tasks whose per-type gold key or bare name is in the
\* bundle; every other active task contributes nothing.
C2_SumOverKeyOrBareName ==
    (pc = "returned" /\ gold_labels # {}) =>
        /\ "loss" \in DOMAIN output_dict
        /\ output_dict["loss"] =
               Scalar(SumOfReturned({k \in DOMAIN tasks_to_handle :
                                        GoldKeyOrBareNamePresent(k)}))

\* an active dependency task without gold whose decoder returned a positive
\* loss, left out of a positive sum
C2_Witness ==
    /\ pc = "returned"
    /\ gold_labels # {}
    /\ output_dict["loss"].val > 0
    /\ \E k \in DOMAIN tasks_to_handle :
          /\ task_types_to_handle[k] = "dependency"
          /\ ~GoldKeyOrBareNamePresent(k)
          /\ ReturnedLoss(tasks_to_handle[k]) > 0

\* C3: a bundle forward returned holds a `loss` key iff the gold bundle was
\* non-empty.
C3_LossKeyIffGold ==
    pc = "returned" => ("loss" \in DOMAIN output_dict <=> gold_labels # {})

\* pure inference with a decoder that ran and returned a loss
C3_Witness ==
    /\ pc = "returned"
    /\ gold_labels = {}
    /\ DOMAIN logits # {}
    /\ "loss" \notin DOMAIN output_dict

\* C4 as stated: with an empty active-task list forward invokes no decoder,
\* returns no class probabilities and emits no `loss` key.
C4_NoLossKey ==
    (pc = "returned" /\ tasks_to_handle = <<>>) =>
        /\ calls = <<>>
        /\ output_dict["class_probabilities"] = {}
        /\ "loss" \notin DOMAIN output_dict

\* C4 amended: with an empty active-task list forward invokes no decoder,
\* returns no class probabilities, and emits a `loss` key exactly when the gold
\* bundle is non-empty, its value then being 0.
C4_ZeroLossIffGold ==
    (pc = "returned" /\ tasks_to_handle = <<>>) =>
        /\ calls = <<>>
        /\ output_dict["class_probabilities"] = {}
        /\ output_dict["logits"] = EmptyDict
        /\ ("loss" \in DOMAIN output_dict <=> gold_labels # {})
        /\ "loss" \in DOMAIN output_dict => output_dict["loss"] = Scalar(0)

\* no task active although the registry, col_idxs and the gold bundle are
\* non-empty
C4_Witness ==
    /\ pc = "returned"
    /\ tasks_to_handle = <<>>
    /\ Len(tasks) = 2
    /\ col_idxs # {}
    /\ gold_labels # {}
    /\ output_dict["loss"] = Scalar(0)

\* the registry positions that are active for the batch
ActivePositions ==
    {i \in DOMAIN tasks :
        PerTypeKey(tasks[i], task_types[i]) \in col_idxs \/ tasks[i] \in col_idxs}

\* C8: the decoders are invoked in registry order, each at most once and only
\* for active tasks; when forward returns, every active task's decoder was
\* invoked; and when col_idxs is exactly one task's key, only that task's
\* decoder was.
C8_DispatchOrder ==
    Selected =>
        /\ \A k \in DOMAIN calls :
               \E i \in ActivePositions :
                   /\ calls[k].task = tasks[i]
                   /\ calls[k].type = task_types[i]
                   /\ Cardinality({j \in ActivePositions : j <= i}) = k
        /\ pc = "returned" => Len(calls) = Cardinality(ActivePositions)
        /\ \A i \in DOMAIN tasks :
               (pc = "returned" /\ col_idxs = {PerTypeKey(tasks[i], task_types[i])})
                   => calls = <<Invocation(tasks[i], task_types[i], gold_labels)>>

\* two registered tasks, col_idxs exactly the second one's key, one invocation
C8_Witness ==
    /\ pc = "returned"
    /\ Len(tasks) = 2
    /\ col_idxs = {PerTypeKey(tasks[2], task_types[2])}
    /\ Len(calls) = 1
    /\ calls[1].task = tasks[2]

\* the gold labels the decoder of a task of this type is trained on
RequiredGold(task, task_type) ==
    CASE task_type = "seq2seq"    -> {task \o "_target"}
      [] task_type = "dependency" -> {task \o "_rels", task \o "_head_indices"}
      [] OTHER                    -> {task}

\* C10: a task whose loss is read for the aggregate had its decoder invoked
\* with all its gold labels, and forward never fails on the loss of a decoder
\* that ran without labels.
C10_LossReadOnlyWithGold ==
    /\ \A k \in DOMAIN calls :
           calls[k].task \in loss_reads
               => calls[k].gold = RequiredGold(calls[k].task, calls[k].type)
    /\ pc = "raised" => calls[Len(calls)].gold # {}

----------------------------------------------------------------------------
(* Properties of make_output_human_readable *)

\* C7: after the humanizer, once or repeatedly, `loss` is the aggregated loss
\* wrapped in exactly one list when it is zero and bare when it is not.
C7_WrapIffZero ==
    pc = "humanized" =>
        /\ output_dict["loss"].val = loss
        /\ output_dict["loss"].depth = (IF loss = 0 THEN 1 ELSE 0)

\* a zero loss after the second application
C7_Witness ==
    /\ pc = "humanized"
    /\ n_humanized = 2
    /\ loss = 0
    /\ calls # <<>>
    /\ output_dict["loss"] = Wrap(Scalar(0))

\* C9: the humanizer never raises on a bundle forward returned, and after it
\* every task with class probabilities has its humanized entries.
C9_HumanizerNeverRaises ==
    /\ pc # "hr_raised"
    /\ pc = "humanized" =>
           \A i \in DOMAIN tasks :
               /\ tasks[i] \in output_dict["class_probabilities"]
                      => tasks[i] \in DOMAIN output_dict
               /\ (tasks[i] \o "_rels") \in output_dict["class_probabilities"]
                      => (tasks[i] \o "_rels") \in DOMAIN output_dict

----------------------------------------------------------------------------
(* Properties of get_metrics *)

\* the names get_metrics returned besides the composite key
ReducedNames == DOMAIN returned_metrics \ {RunSum}

\* the tracked set: the task name, or `las` for a dependency task
Tracked == {IF task_types[i] = "dependency" THEN "las" ELSE tasks[i] : i \in DOMAIN tasks}

InComposite(name) ==
    /\ \E i \in DOMAIN Split(name) : Join(Split(name)[i]) \in Tracked
    /\ ~EndsWith(name, <<"p", "p", "l">>)
    /\ name[1] # "_"

RECURSIVE SumOfReduced(_)
SumOfReduced(names) ==
    IF names = {} THEN 0
    ELSE LET n == CHOOSE x \in names : TRUE
         IN  returned_metrics[n].num + SumOfReduced(names \ {n})

AccOfA == <<"a", "/", "a", "c", "c">>

LasOfB == <<"b", "/", "l", "a", "s">>

\* the decoders of registry <<a, b dependency>> report a/acc = 1 and
\* b/las = {LAS: 1, UAS: 2}
ExampleReports ==
    /\ tasks = <<"a", "b">>
    /\ task_types[1] # "dependency"
    /\ task_types[2] = "dependency"
    /\ decoder_returned =
          [t \in {"a", "b"} |->
              IF t = "a" THEN [n \in {AccOfA} |-> Num(1)]
              ELSE [n \in {LasOfB} |-> Mapping([f \in {"LAS", "UAS"} |-> IF f = "LAS" THEN 1 ELSE 2])]]

\* C5: get_metrics stores under .run/.sum the sum of the reduced metrics whose
\* name has a component in the tracked set, does not end in ppl and does not
\* start with an underscore; the example of two metrics gives their sum and no
\* metric at all gives 0.
C5_CompositeSum ==
    pc = "metrics" =>
        /\ returned_metrics # NoValue
        /\ RunSum \in DOMAIN returned_metrics
        /\ returned_metrics[RunSum] =
               Num(SumOfReduced({n \in ReducedNames : InComposite(n)}))
        /\ ExampleReports => returned_metrics[RunSum] = Num(2)
        /\ (\A t \in DOMAIN decoder_returned : DOMAIN decoder_returned[t] = {})
               => returned_metrics = [n \in {RunSum} |-> Num(0)]

\* the example: a/acc and the LAS of b/las are summed, the UAS is not
C5_Witness ==
    /\ pc = "metrics"
    /\ ExampleReports
    /\ returned_metrics[RunSum] = Num(2)

Recognised(name) ==
    \/ Join(LastComponent(name)) \in
           {"acc", "ppl", "micro-f1", "macro-f1", "span_f1", "multi_span_f1", "bleu"}
    \/ Join(Lower(LastComponent(name))) = "las"

\* what the decoders returned, without the metrics of unrecognised suffix
WithoutUnrecognised ==
    [t \in DOMAIN decoder_returned |->
        [n \in {x \in DOMAIN decoder_returned[t] : Recognised(x)} |-> decoder_returned[t][n]]]

\* C6: a metric of unrecognised suffix does not make get_metrics raise, is no
\* key of the returned mapping, and the returned mapping, .run/.sum included,
\* is what it is without that metric.
C6_UnrecognisedDropped ==
    pc = "metrics" =>
        /\ returned_metrics # NoValue
        /\ \A t \in DOMAIN decoder_returned :
               \A n \in DOMAIN decoder_returned[t] :
                   ~Recognised(n) => n \notin DOMAIN returned_metrics
        /\ returned_metrics = GetMetricsResult(tasks, task_types, WithoutUnrecognised)

\* a decoder reports a/xyz beside a/acc = 1, and the sum is 1
C6_Witness ==
    /\ pc = "metrics"
    /\ tasks[1] = "a"
    /\ task_types[1] # "dependency"
    /\ DOMAIN decoder_returned["a"] = {AccOfA, <<"a", "/", "x", "y", "z">>}
    /\ decoder_returned["a"][AccOfA] = Num(1)
    /\ decoder_returned["a"][<<"a", "/", "x", "y", "z">>] = Num(1)
    /\ returned_metrics[RunSum] = Num(1)

====
